---- MODULE Spec2Model ----
(***************************************************************************)
(* Student grade management: the record accessors (Student, Course, Grade) *)
(* over a relational Store, and the grade engine (score -> letter -> GPA). *)
(*                                                                         *)
(* Numbers.  A score is a real number in the source; here it is an integer *)
(* count of 1/ScoreScale points, so 49.999 is 50*ScoreScale - 1.  A GPA    *)
(* point (4.0, 3.0, ...) is an integer, and a GPA is an integer count of   *)
(* hundredths (round(gpa, 2) keeps two decimals).                          *)
(*                                                                         *)
(* Python's None is the string None where a string is expected and the     *)
(* integer NoneNum where a number is expected; neither is in any domain of *)
(* proper values.                                                          *)
(***************************************************************************)
EXTENDS Integers, Sequences, FiniteSets, TLC

\* Resolution of the score grid: scores are multiples of 1/ScoreScale.
ScoreScale == 1000
\* Cap of each table's AUTO_INCREMENT counter (ids are never reused).
MaxId == 2

None == "<None>"
NoneNum == -1000000

VARIABLES
    students,   \* id -> row of table students
    courses,    \* id -> row of table courses
    grades,     \* id -> row of table grades
    nextId,     \* table name -> next AUTO_INCREMENT value
    last,       \* the last completed call: its name, argument echo, result
    instances   \* live repository instances: name -> its connection and position

vars == <<students, courses, grades, nextId, last, instances>>

\* A completed call: the operation, the argument it echoes (queries only), the
\* value returned, the exception raised ("" for none), the line printed, and
\* io, the statements the call handed to the Store, in order (a statement
\* that failed is one it handed over).
Call(op, arg, val, exc, msg) ==
    [op |-> op, arg |-> arg, val |-> val, exc |-> exc, msg |-> msg, io |-> <<>>]

NoCall == Call("", <<>>, FALSE, "", "")

EmptyTable == [i \in {} |-> {}]

\* No repository instance is tracked: the calls of a specification that
\* starts so are the calls of one caller whose instance holds a connection.
NoInstances == EmptyTable

EmptyStore ==
    /\ students = EmptyTable
    /\ courses = EmptyTable
    /\ grades = EmptyTable
    /\ nextId = [students |-> 1, courses |-> 1, grades |-> 1]
    /\ instances = NoInstances

(***************************************************************************)
(* Grade engine                                                            *)
(***************************************************************************)
Letters == {"A", "B", "C", "D", "E"}

calculate_grade_letter_gt(score) ==
    IF score > 85 * ScoreScale THEN "A"
    ELSE IF score >= 70 * ScoreScale THEN "B"
    ELSE IF score >= 60 * ScoreScale THEN "C"
    ELSE IF score >= 50 * ScoreScale THEN "D"
    ELSE "E"

calculate_grade_letter(score) ==
    IF score >= 85 * ScoreScale THEN "A"
    ELSE IF score >= 70 * ScoreScale THEN "B"
    ELSE IF score >= 60 * ScoreScale THEN "C"
    ELSE IF score >= 50 * ScoreScale THEN "D"
    ELSE "E"

gpa_scale == [A |-> 4, B |-> 3, C |-> 2, D |-> 1, E |-> 0]

grade_to_gpa_shifted(grade_letter) ==
    IF grade_letter \in DOMAIN gpa_scale THEN gpa_scale[grade_letter] ELSE 1

grade_to_gpa(grade_letter) ==
    IF grade_letter \in DOMAIN gpa_scale THEN gpa_scale[grade_letter] ELSE 0

\* Every score of the grid in [0, 100].
ScoreGrid == 0 .. 100 * ScoreScale

\* Letters handed to grade_to_gpa: the five of the scale, and values outside it.
LetterInputs == Letters \cup {"F", "a", "", "AB", None}

\* A call of one of the two engine functions that has not returned yet.
EngineCalls ==
    {Call("calculate_grade_letter:call", score, "", "", "") : score \in ScoreGrid}
        \cup {Call("grade_to_gpa:call", letter, 0, "", "") : letter \in LetterInputs}

CalcLetter ==
    /\ last.op = "calculate_grade_letter:call"
    /\ last' = Call("calculate_grade_letter", last.arg,
                    calculate_grade_letter(last.arg), "", "")
    /\ UNCHANGED <<students, courses, grades, nextId, instances>>

LetterToGpa ==
    /\ last.op = "grade_to_gpa:call"
    /\ last' = Call("grade_to_gpa", last.arg, grade_to_gpa(last.arg), "", "")
    /\ UNCHANGED <<students, courses, grades, nextId, instances>>

InitEngine == EmptyStore /\ last \in EngineCalls

NextEngine == CalcLetter \/ LetterToGpa

SpecEngine == InitEngine /\ [][NextEngine]_vars

(***************************************************************************)
(* Store (config/database.py).  A statement either succeeds or fails as a  *)
(* whole: rd / wr say whether the read / the write a call issues succeeds. *)
(* A result row is named by its id; fetch_one returns a sequence of at     *)
(* most one id, the empty sequence standing for None.                      *)
(***************************************************************************)
\* The least id of a non-empty set of ids.
MinOf(ids) == CHOOSE i \in ids : \A j \in ids : i <= j

fetch_one(rd, ids) == IF rd /\ ids # {} THEN <<MinOf(ids)>> ELSE <<>>

execute_query(wr, accepted) == wr /\ accepted

\* The table with one more row, stored under the table's next id.
Inserted(table, id, row) == [i \in DOMAIN table \cup {id} |-> IF i = id THEN row ELSE table[i]]

\* A DELETE that removes every row of the table.
DeletedAll(table, ids) == IF ids \cap DOMAIN table = {} THEN table ELSE EmptyTable

\* The table without the rows of ids.
Deleted(table, ids) == [i \in DOMAIN table \ ids |-> table[i]]

\* grades.student_id and grades.course_id are foreign keys: an INSERT that
\* references a missing student or course is rejected by the Store.
ForeignKeysHold(student_id, course_id) ==
    student_id \in DOMAIN students /\ course_id \in DOMAIN courses

\* students.nim and courses.code carry no uniqueness constraint in the Store:
\* the natural keys are guarded by the repositories' pre-check queries alone,
\* and an INSERT of a key that is already stored is accepted.
NaturalKeyAccepted == TRUE

\* A statement as io records it: by its verb, marked when the Store failed it.
Select(rd) == IF rd THEN "SELECT" ELSE "SELECT failed"

Write(verb, wr) == IF wr THEN verb ELSE verb \o " failed"

FailedStatements == {"SELECT failed", "INSERT failed", "UPDATE failed", "DELETE failed"}

\* The call returns val after printing msg; or it raises exc.
Return(op, val, msg, io) ==
    /\ last' = [Call(op, <<>>, val, "", msg) EXCEPT !.io = io]
    /\ UNCHANGED instances

\* (val is then the operation's failure value, and means nothing.)
Raise(op, val, exc, io) ==
    /\ last' = [Call(op, <<>>, val, exc, "") EXCEPT !.io = io]
    /\ UNCHANGED instances

\* What execute_query prints when the statement fails.
QueryFailed == "Error executing query"

(***************************************************************************)
(* Record accessor (models/base_model.py)                                  *)
(***************************************************************************)
find_by_id(table, id, rd) == fetch_one(rd, {i \in DOMAIN table : i = id})

(***************************************************************************)
(* Keyword arguments of an update call: the sequence of <<field, value>>   *)
(* pairs in the order given, no field twice.                               *)
(***************************************************************************)
NumericFields == {"credits", "semester"}

\* value is None
IsNone(field, value) == IF field \in NumericFields THEN value = NoneNum ELSE value = None

SetClausesWithNone(kwargs, allowed_fields) ==
    SelectSeq(kwargs, LAMBDA kv : kv[1] \in allowed_fields)

\* The pairs the loop appends to update_fields / params: allowed and not None.
SetClauses(kwargs, allowed_fields) ==
    SelectSeq(kwargs, LAMBDA kv : kv[1] \in allowed_fields /\ ~IsNone(kv[1], kv[2]))

\* UPDATE ... SET field = value, ... on one row.
RECURSIVE Assigned(_, _)
Assigned(row, clauses) ==
    IF clauses = <<>> THEN row
    ELSE Assigned([row EXCEPT ![Head(clauses)[1]] = Head(clauses)[2]], Tail(clauses))

\* A Store whose foreign key on grades.student_id does not cascade.
CascadeStudentNone(id) == grades

\* DELETE of a student or course cascades to the grades that reference it
\* (ON DELETE CASCADE of the foreign keys).
CascadeStudent(id) == Deleted(grades, {i \in DOMAIN grades : grades[i].student_id = id})

CascadeCourse(id) == Deleted(grades, {i \in DOMAIN grades : grades[i].course_id = id})

(***************************************************************************)
(* Student repository (models/student.py)                                  *)
(***************************************************************************)
StudentRow(nim, name, major, email, phone) ==
    [nim |-> nim, name |-> name, major |-> major, email |-> email, phone |-> phone]

\* not value, for a string argument: None or the empty string.
Falsy(value) == value = None \/ value = ""

find_by_nim(nim, rd) == fetch_one(rd, {i \in DOMAIN students : students[i].nim = nim})

StudentCreate(nim, name, major, email, phone, rd, wr) ==
    IF Falsy(nim) \/ Falsy(name) \/ Falsy(major)
    THEN /\ Return("Student.create", NoneNum, "NIM, name, and major are required", <<>>)
         /\ UNCHANGED <<students, courses, grades, nextId>>
    ELSE IF find_by_nim(nim, rd) # <<>>
    THEN /\ Return("Student.create", NoneNum, "Student with NIM already exists", <<Select(rd)>>)
         /\ UNCHANGED <<students, courses, grades, nextId>>
    ELSE IF execute_query(wr, NaturalKeyAccepted)
    THEN /\ nextId.students <= MaxId
         /\ students' = Inserted(students, nextId.students,
                                 StudentRow(nim, name, major, email, phone))
         /\ nextId' = [nextId EXCEPT !.students = @ + 1]
         /\ Return("Student.create", nextId.students, "Student created successfully", <<Select(rd), Write("INSERT", wr)>>)
         /\ UNCHANGED <<courses, grades>>
    ELSE /\ Return("Student.create", NoneNum, QueryFailed, <<Select(rd), Write("INSERT", wr)>>)
         /\ UNCHANGED <<students, courses, grades, nextId>>

StudentAllowedFields == {"name", "major", "email", "phone"}

StudentUpdate(id, kwargs, rd, wr) ==
    IF find_by_id(students, id, rd) = <<>>
    THEN /\ Return("Student.update", FALSE, "Student not found", <<Select(rd)>>)
         /\ UNCHANGED <<students, courses, grades, nextId>>
    ELSE IF SetClauses(kwargs, StudentAllowedFields) = <<>>
    THEN /\ Return("Student.update", FALSE, "No valid fields to update", <<Select(rd)>>)
         /\ UNCHANGED <<students, courses, grades, nextId>>
    ELSE IF execute_query(wr, TRUE)
    THEN /\ students' = [i \in DOMAIN students |->
                IF i = id THEN Assigned(students[i], SetClauses(kwargs, StudentAllowedFields))
                ELSE students[i]]
         /\ Return("Student.update", TRUE, "Student updated successfully", <<Select(rd), Write("UPDATE", wr)>>)
         /\ UNCHANGED <<courses, grades, nextId>>
    ELSE /\ Return("Student.update", FALSE, QueryFailed, <<Select(rd), Write("UPDATE", wr)>>)
         /\ UNCHANGED <<students, courses, grades, nextId>>

StudentDelete(id, rd, wr) ==
    IF find_by_id(students, id, rd) = <<>>
    THEN /\ Return("Student.delete", FALSE, "Student not found", <<Select(rd)>>)
         /\ UNCHANGED <<students, courses, grades, nextId>>
    ELSE IF execute_query(wr, TRUE)
    THEN /\ students' = Deleted(students, {i \in DOMAIN students : i = id})
         /\ grades' = CascadeStudent(id)
         /\ Return("Student.delete", TRUE, "Student deleted successfully", <<Select(rd), Write("DELETE", wr)>>)
         /\ UNCHANGED <<courses, nextId>>
    ELSE /\ Return("Student.delete", FALSE, QueryFailed, <<Select(rd), Write("DELETE", wr)>>)
         /\ UNCHANGED <<students, courses, grades, nextId>>

(***************************************************************************)
(* Course repository (models/course.py)                                    *)
(***************************************************************************)
CourseRow(code, name, credits, semester, description) ==
    [code |-> code, name |-> name, credits |-> credits, semester |-> semester,
     description |-> description]

\* not value, for a numeric argument: None or 0.
FalsyNum(value) == value = NoneNum \/ value = 0

CreditsOutOfRangeHigh(credits) == credits > 6

\* credits < 1 or credits > 6
CreditsOutOfRange(credits) == credits < 1 \/ credits > 6

\* semester < 1 or semester > 8
SemesterOutOfRange(semester) == semester < 1 \/ semester > 8

find_by_code(code, rd) == fetch_one(rd, {i \in DOMAIN courses : courses[i].code = code})

CourseCreate(code, name, credits, semester, description, rd, wr) ==
    IF Falsy(code) \/ Falsy(name) \/ FalsyNum(credits) \/ FalsyNum(semester)
    THEN /\ Return("Course.create", NoneNum, "Code, name, credits, and semester are required", <<>>)
         /\ UNCHANGED <<students, courses, grades, nextId>>
    ELSE IF CreditsOutOfRange(credits)
    THEN /\ Return("Course.create", NoneNum, "Credits must be between 1 and 6", <<>>)
         /\ UNCHANGED <<students, courses, grades, nextId>>
    ELSE IF SemesterOutOfRange(semester)
    THEN /\ Return("Course.create", NoneNum, "Semester must be between 1 and 8", <<>>)
         /\ UNCHANGED <<students, courses, grades, nextId>>
    ELSE IF find_by_code(code, rd) # <<>>
    THEN /\ Return("Course.create", NoneNum, "Course with code already exists", <<Select(rd)>>)
         /\ UNCHANGED <<students, courses, grades, nextId>>
    ELSE IF execute_query(wr, NaturalKeyAccepted)
    THEN /\ nextId.courses <= MaxId
         /\ courses' = Inserted(courses, nextId.courses,
                                CourseRow(code, name, credits, semester, description))
         /\ nextId' = [nextId EXCEPT !.courses = @ + 1]
         /\ Return("Course.create", nextId.courses, "Course created successfully", <<Select(rd), Write("INSERT", wr)>>)
         /\ UNCHANGED <<students, grades>>
    ELSE /\ Return("Course.create", NoneNum, QueryFailed, <<Select(rd), Write("INSERT", wr)>>)
         /\ UNCHANGED <<students, courses, grades, nextId>>

CourseAllowedFields == {"name", "credits", "semester", "description"}

\* The loop of Course.update over kwargs: the message of the first allowed,
\* non-None pair that is out of range, at which the call returns False; ""
\* when the loop runs to its end.
\* (checks the first keyword only)
FirstRangeErrorHeadOnly(kwargs) ==
    IF kwargs = <<>> THEN ""
    ELSE IF Head(kwargs)[1] = "credits" /\ ~IsNone("credits", Head(kwargs)[2])
            /\ (Head(kwargs)[2] < 1 \/ Head(kwargs)[2] > 6)
    THEN "Credits must be between 1 and 6"
    ELSE IF Head(kwargs)[1] = "semester" /\ ~IsNone("semester", Head(kwargs)[2])
            /\ (Head(kwargs)[2] < 1 \/ Head(kwargs)[2] > 8)
    THEN "Semester must be between 1 and 8"
    ELSE ""

RECURSIVE FirstRangeError(_)
FirstRangeError(kwargs) ==
    IF kwargs = <<>> THEN ""
    ELSE LET field == Head(kwargs)[1]
             value == Head(kwargs)[2]
         IN  IF field \in CourseAllowedFields /\ ~IsNone(field, value)
             THEN IF field = "credits" /\ CreditsOutOfRange(value)
                  THEN "Credits must be between 1 and 6"
                  ELSE IF field = "semester" /\ SemesterOutOfRange(value)
                  THEN "Semester must be between 1 and 8"
                  ELSE FirstRangeError(Tail(kwargs))
             ELSE FirstRangeError(Tail(kwargs))

CourseUpdate(id, kwargs, rd, wr) ==
    IF find_by_id(courses, id, rd) = <<>>
    THEN /\ Return("Course.update", FALSE, "Course not found", <<Select(rd)>>)
         /\ UNCHANGED <<students, courses, grades, nextId>>
    ELSE IF FirstRangeError(kwargs) # ""
    THEN /\ Return("Course.update", FALSE, FirstRangeError(kwargs), <<Select(rd)>>)
         /\ UNCHANGED <<students, courses, grades, nextId>>
    ELSE IF SetClauses(kwargs, CourseAllowedFields) = <<>>
    THEN /\ Return("Course.update", FALSE, "No valid fields to update", <<Select(rd)>>)
         /\ UNCHANGED <<students, courses, grades, nextId>>
    ELSE IF execute_query(wr, TRUE)
    THEN /\ courses' = [i \in DOMAIN courses |->
                IF i = id THEN Assigned(courses[i], SetClauses(kwargs, CourseAllowedFields))
                ELSE courses[i]]
         /\ Return("Course.update", TRUE, "Course updated successfully", <<Select(rd), Write("UPDATE", wr)>>)
         /\ UNCHANGED <<students, grades, nextId>>
    ELSE /\ Return("Course.update", FALSE, QueryFailed, <<Select(rd), Write("UPDATE", wr)>>)
         /\ UNCHANGED <<students, courses, grades, nextId>>

CourseDelete(id, rd, wr) ==
    IF find_by_id(courses, id, rd) = <<>>
    THEN /\ Return("Course.delete", FALSE, "Course not found", <<Select(rd)>>)
         /\ UNCHANGED <<students, courses, grades, nextId>>
    ELSE IF execute_query(wr, TRUE)
    THEN /\ courses' = Deleted(courses, {i \in DOMAIN courses : i = id})
         /\ grades' = CascadeCourse(id)
         /\ Return("Course.delete", TRUE, "Course deleted successfully", <<Select(rd), Write("DELETE", wr)>>)
         /\ UNCHANGED <<students, nextId>>
    ELSE /\ Return("Course.delete", FALSE, QueryFailed, <<Select(rd), Write("DELETE", wr)>>)
         /\ UNCHANGED <<students, courses, grades, nextId>>

(***************************************************************************)
(* Grade repository (models/grade.py)                                      *)
(***************************************************************************)
find_by_student_course_swapped(student_id, course_id, semester, academic_year, rd) ==
    fetch_one(rd, {i \in DOMAIN grades :
        /\ grades[i].student_id = course_id
        /\ grades[i].course_id = student_id
        /\ grades[i].semester = semester
        /\ grades[i].academic_year = academic_year})

find_by_student_course(student_id, course_id, semester, academic_year, rd) ==
    fetch_one(rd, {i \in DOMAIN grades :
        /\ grades[i].student_id = student_id
        /\ grades[i].course_id = course_id
        /\ grades[i].semester = semester
        /\ grades[i].academic_year = academic_year})

\* The row Grade.create inserts.
NewGradeRow(student_id, course_id, score, semester, academic_year) ==
    [student_id |-> student_id, course_id |-> course_id, score |-> score,
     grade_letter |-> calculate_grade_letter(score),
     semester |-> semester, academic_year |-> academic_year]

RescoredStale(row, score) == [row EXCEPT !.score = score]

\* The row Grade.update leaves: SET score = %s, grade_letter = %s.
Rescored(row, score) ==
    [row EXCEPT !.score = score, !.grade_letter = calculate_grade_letter(score)]

ScoreOutOfRangeHigh(score) == score > 100 * ScoreScale

\* if score < 0 or score > 100
ScoreOutOfRange(score) == score < 0 \/ score > 100 * ScoreScale

GradeCreate(student_id, course_id, score, semester, academic_year, rd, wr) ==
    IF student_id \in {0, NoneNum} \/ course_id \in {0, NoneNum} \/ score = NoneNum
    THEN /\ Return("Grade.create", NoneNum, "Student ID, course ID, and score are required", <<>>)
         /\ UNCHANGED <<students, courses, grades, nextId>>
    ELSE IF ScoreOutOfRange(score)
    THEN /\ Return("Grade.create", NoneNum, "Score must be between 0 and 100", <<>>)
         /\ UNCHANGED <<students, courses, grades, nextId>>
    ELSE IF semester = NoneNum
    THEN /\ Raise("Grade.create", NoneNum, "TypeError", <<>>)
         /\ UNCHANGED <<students, courses, grades, nextId>>
    ELSE IF semester < 1 \/ semester > 8
    THEN /\ Return("Grade.create", NoneNum, "Semester must be between 1 and 8", <<>>)
         /\ UNCHANGED <<students, courses, grades, nextId>>
    ELSE IF find_by_student_course(student_id, course_id, semester, academic_year, rd) # <<>>
    THEN /\ Return("Grade.create", NoneNum, "Grade already exists for this student-course", <<Select(rd)>>)
         /\ UNCHANGED <<students, courses, grades, nextId>>
    ELSE IF execute_query(wr, ForeignKeysHold(student_id, course_id))
    THEN /\ nextId.grades <= MaxId
         /\ grades' = Inserted(grades, nextId.grades,
                NewGradeRow(student_id, course_id, score, semester, academic_year))
         /\ nextId' = [nextId EXCEPT !.grades = @ + 1]
         /\ Return("Grade.create", nextId.grades, "Grade created", <<Select(rd), Write("INSERT", wr)>>)
         /\ UNCHANGED <<students, courses>>
    ELSE /\ Return("Grade.create", NoneNum, QueryFailed, <<Select(rd), Write("INSERT", wr)>>)
         /\ UNCHANGED <<students, courses, grades, nextId>>

\* A Grade.update that hands its UPDATE to the Store before it looks at the
\* range of the score.
GradeUpdateWriteFirst(id, score, rd, wr) ==
    IF find_by_id(grades, id, rd) = <<>>
    THEN /\ Return("Grade.update", FALSE, "Grade not found", <<Select(rd)>>)
         /\ UNCHANGED <<students, courses, grades, nextId>>
    ELSE IF ScoreOutOfRange(score)
    THEN /\ Return("Grade.update", FALSE, "Score must be between 0 and 100",
                   <<Select(rd), Write("UPDATE", wr)>>)
         /\ UNCHANGED <<students, courses, grades, nextId>>
    ELSE /\ grades' = [i \in DOMAIN grades |->
                IF i = id THEN Rescored(grades[i], score) ELSE grades[i]]
         /\ Return("Grade.update", TRUE, "Grade updated", <<Select(rd), Write("UPDATE", wr)>>)
         /\ UNCHANGED <<students, courses, nextId>>

GradeUpdate(id, score, rd, wr) ==
    IF find_by_id(grades, id, rd) = <<>>
    THEN /\ Return("Grade.update", FALSE, "Grade not found", <<Select(rd)>>)
         /\ UNCHANGED <<students, courses, grades, nextId>>
    ELSE IF score = NoneNum
    THEN /\ Raise("Grade.update", FALSE, "TypeError", <<Select(rd)>>)
         /\ UNCHANGED <<students, courses, grades, nextId>>
    ELSE IF ScoreOutOfRange(score)
    THEN /\ Return("Grade.update", FALSE, "Score must be between 0 and 100", <<Select(rd)>>)
         /\ UNCHANGED <<students, courses, grades, nextId>>
    ELSE IF execute_query(wr, TRUE)
    THEN /\ grades' = [i \in DOMAIN grades |->
                IF i = id THEN Rescored(grades[i], score) ELSE grades[i]]
         /\ Return("Grade.update", TRUE, "Grade updated", <<Select(rd), Write("UPDATE", wr)>>)
         /\ UNCHANGED <<students, courses, nextId>>
    ELSE /\ Return("Grade.update", FALSE, QueryFailed, <<Select(rd), Write("UPDATE", wr)>>)
         /\ UNCHANGED <<students, courses, grades, nextId>>

GradeDelete(id, rd, wr) ==
    IF find_by_id(grades, id, rd) = <<>>
    THEN /\ Return("Grade.delete", FALSE, "Grade not found", <<Select(rd)>>)
         /\ UNCHANGED <<students, courses, grades, nextId>>
    ELSE IF execute_query(wr, TRUE)
    THEN /\ grades' = Deleted(grades, {i \in DOMAIN grades : i = id})
         /\ Return("Grade.delete", TRUE, "Grade deleted successfully", <<Select(rd), Write("DELETE", wr)>>)
         /\ UNCHANGED <<students, courses, nextId>>
    ELSE /\ Return("Grade.delete", FALSE, QueryFailed, <<Select(rd), Write("DELETE", wr)>>)
         /\ UNCHANGED <<students, courses, grades, nextId>>

\* Course codes in ascending (collation) order; ORDER BY c.code ranks by it.
CodeOrder == <<"CS101", "CS102", "CS103">>

CodeRank(code) == CHOOSE k \in 1 .. Len(CodeOrder) : CodeOrder[k] = code

\* ORDER BY g.semester, c.code over grade ids (rows equal on both keys are
\* returned in id order).
GradeBefore(i, j) ==
    LET si == grades[i].semester
        sj == grades[j].semester
        ci == CodeRank(courses[grades[i].course_id].code)
        cj == CodeRank(courses[grades[j].course_id].code)
    IN  \/ si < sj
        \/ si = sj /\ ci < cj
        \/ si = sj /\ ci = cj /\ i <= j

RECURSIVE OrderedGrades(_)
OrderedGrades(ids) ==
    IF ids = {} THEN <<>>
    ELSE LET first == CHOOSE i \in ids : \A j \in ids : GradeBefore(i, j)
         IN  <<first>> \o OrderedGrades(ids \ {first})

\* One row of grades JOIN courses.
JoinedGrade(i) ==
    [id |-> i, score |-> grades[i].score, grade_letter |-> grades[i].grade_letter,
     semester |-> grades[i].semester, academic_year |-> grades[i].academic_year,
     code |-> courses[grades[i].course_id].code,
     course_name |-> courses[grades[i].course_id].name,
     credits |-> courses[grades[i].course_id].credits]

\* fetch_all returns the empty list when the statement fails.
get_student_grades(student_id, rd) ==
    IF rd
    THEN LET ids == OrderedGrades({i \in DOMAIN grades :
                        /\ grades[i].student_id = student_id
                        /\ grades[i].course_id \in DOMAIN courses})
         IN  [k \in 1 .. Len(ids) |-> JoinedGrade(ids[k])]
    ELSE <<>>

\* The for loop of get_student_transcript: <<total_points, total_credits>>.
RECURSIVE Totals(_)
Totals(rows) ==
    IF rows = <<>> THEN <<0, 0>>
    ELSE LET rest == Totals(Tail(rows))
             gpa_point == grade_to_gpa(Head(rows).grade_letter)
             credits == Head(rows).credits
         IN  <<rest[1] + gpa_point * credits, rest[2] + credits>>

RoundDown2(points, credits) == (100 * points) \div credits

\* round(points / credits, 2) in hundredths.  Python rounds the quotient's
\* exact value half to even; a quotient that lies exactly on a half is an odd
\* multiple of 1/8 while credits < 40, which the float holds exactly.
Round2(points, credits) ==
    LET q == (100 * points) \div credits
        r == (100 * points) % credits
    IN  IF 2 * r < credits THEN q
        ELSE IF 2 * r > credits THEN q + 1
        ELSE IF q % 2 = 0 THEN q ELSE q + 1

\* <<>> for None, else the one transcript.  rdStudent / rdGrades: whether the
\* read of the student row / of the joined grades succeeds.
get_student_transcript(student_id, rdStudent, rdGrades) ==
    IF find_by_id(students, student_id, rdStudent) = <<>> THEN <<>>
    ELSE LET rows == get_student_grades(student_id, rdGrades)
             total_points == Totals(rows)[1]
             total_credits == Totals(rows)[2]
         IN  <<[student |-> student_id,
                grades |-> rows,
                total_credits |-> total_credits,
                gpa |-> IF total_credits > 0
                        THEN Round2(total_points, total_credits) ELSE 0]>>

GetStudentTranscript(student_id, rdStudent, rdGrades) ==
    /\ last' = [Call("Grade.get_student_transcript", student_id,
                     get_student_transcript(student_id, rdStudent, rdGrades), "",
                     IF find_by_id(students, student_id, rdStudent) = <<>>
                     THEN "Student not found" ELSE "")
                    EXCEPT !.io = IF find_by_id(students, student_id, rdStudent) = <<>>
                                  THEN <<Select(rdStudent)>>
                                  ELSE <<Select(rdStudent), Select(rdGrades)>>]
    /\ UNCHANGED <<students, courses, grades, nextId, instances>>

(***************************************************************************)
(* Grade repository over a store that holds two students, three courses.   *)
(***************************************************************************)
InitGrade ==
    /\ students = <<StudentRow("2021001", "Ada", "CS", None, None),
                    StudentRow("2021002", "Bob", "CS", None, None)>>
    /\ courses = <<CourseRow("CS101", "Algorithms", 3, 1, None),
                   CourseRow("CS102", "Databases", 5, 2, None),
                   CourseRow("CS103", "Networks", 4, 1, None)>>
    /\ grades = EmptyTable
    /\ nextId = [students |-> 3, courses |-> 4, grades |-> 1]
    /\ last = NoCall
    /\ instances = NoInstances

\* Scores on the edges of [0,100] and of the A band: letters E, B, A.
ValidScores == {0, 85 * ScoreScale - 1, 85 * ScoreScale}

\* Arguments handed to Grade.create that pass its validation: student 1 in
\* each course, student 2 in course 1, and student 1 in course 1 a second
\* semester.
ValidQuadruples ==
    {<<1, 1, 1, "2024/2025">>, <<1, 2, 1, "2024/2025">>, <<1, 3, 1, "2024/2025">>,
     <<2, 1, 1, "2024/2025">>, <<1, 1, 2, "2024/2025">>}

ValidGradeArgs ==
    {<<q[1], q[2], score, q[3], q[4]>> : q \in ValidQuadruples, score \in ValidScores}

\* Arguments with one value absent (None), falsy (0), out of range, or naming
\* no row (student 3, course 4).
InvalidGradeArgs ==
    {<<student_id, 1, 0, 1, "2024/2025">> : student_id \in {NoneNum, 0, 3}}
        \cup {<<1, course_id, 0, 1, "2024/2025">> : course_id \in {NoneNum, 0, 4}}
        \cup {<<1, 1, score, 1, "2024/2025">> :
                score \in {NoneNum, -1, 100 * ScoreScale + 1}}
        \cup {<<1, 1, 0, semester, "2024/2025">> : semester \in {NoneNum, 0, 9}}

GradeCreateInputs == ValidGradeArgs \cup InvalidGradeArgs

\* Scores handed to Grade.update.
ScoreInputs == {NoneNum, -1, 0, 85 * ScoreScale - 1, 100 * ScoreScale + 1}

\* Ids of grade rows handed to update and delete: every id the table can
\* have issued, and one it cannot.
GradeIds == 1 .. MaxId + 1

\* Ids of students handed to get_student_transcript: 3 names no student.
StudentIds == {1, 2, 3}

NextGrade ==
    \/ \E a \in GradeCreateInputs : GradeCreate(a[1], a[2], a[3], a[4], a[5], TRUE, TRUE)
    \/ \E id \in GradeIds, score \in ScoreInputs : GradeUpdate(id, score, TRUE, TRUE)
    \/ \E id \in GradeIds : GradeDelete(id, TRUE, TRUE)
    \/ \E student_id \in StudentIds : GetStudentTranscript(student_id, TRUE, TRUE)

SpecGrade == InitGrade /\ [][NextGrade]_vars

(***************************************************************************)
(* Properties of the grade repository (SpecGrade)                          *)
(***************************************************************************)
LetterMatchesScore ==
    \A i \in DOMAIN grades : grades[i].grade_letter = calculate_grade_letter(grades[i].score)

LetterChangesWithScore ==
    \A i \in DOMAIN grades \cap DOMAIN grades' :
        grades'[i].grade_letter # grades[i].grade_letter =>
            /\ grades'[i].score # grades[i].score
            /\ grades'[i].grade_letter = calculate_grade_letter(grades'[i].score)

\* C1: in every state reached by Grade.create, Grade.update and Grade.delete
\* calls, successful or failed, every stored grade row has
\* grade_letter = calculate_grade_letter(score), and no step changes a row's
\* grade_letter without setting its score in the same step.
C1_LetterFollowsScore == []LetterMatchesScore /\ [][LetterChangesWithScore]_vars

\* A successful Grade.update has moved a row to 84.999, and its letter to B.
C1_Witness ==
    /\ last.op = "Grade.update"
    /\ last.val = TRUE
    /\ \E i \in DOMAIN grades :
        grades[i].score = 85 * ScoreScale - 1 /\ grades[i].grade_letter = "B"

Quadruple(row) == <<row.student_id, row.course_id, row.semester, row.academic_year>>

OneRowPerQuadruple ==
    \A i, j \in DOMAIN grades : Quadruple(grades[i]) = Quadruple(grades[j]) => i = j

\* A Grade.create step whose quadruple is the one of a stored row.
DuplicateCreateIsRefused ==
    last'.op = "Grade.create" =>
        \A i \in DOMAIN grades, score \in ValidScores :
            GradeCreate(grades[i].student_id, grades[i].course_id, score,
                        grades[i].semester, grades[i].academic_year, TRUE, TRUE)
                => last'.val = NoneNum /\ grades' = grades

\* C2: with reads that succeed, at most one grade row exists per
\* (student_id, course_id, semester, academic_year), and a Grade.create whose
\* quadruple already has a row returns None and adds no row.
C2_OneGradePerQuadruple == []OneRowPerQuadruple /\ [][DuplicateCreateIsRefused]_vars

\* A Grade.create has just been refused as a duplicate and returned None.
C2_Witness ==
    /\ last.op = "Grade.create"
    /\ last.msg = "Grade already exists for this student-course"
    /\ last.val = NoneNum
    /\ grades # EmptyTable

RECURSIVE CreditsOfGrades(_)
CreditsOfGrades(ids) ==
    IF ids = {} THEN 0
    ELSE LET i == CHOOSE i \in ids : TRUE
         IN  courses[grades[i].course_id].credits + CreditsOfGrades(ids \ {i})

RECURSIVE PointsOfGrades(_)
PointsOfGrades(ids) ==
    IF ids = {} THEN 0
    ELSE LET i == CHOOSE i \in ids : TRUE
             point == CASE grades[i].grade_letter = "A" -> 4
                        [] grades[i].grade_letter = "B" -> 3
                        [] grades[i].grade_letter = "C" -> 2
                        [] grades[i].grade_letter = "D" -> 1
                        [] OTHER -> 0
         IN  point * courses[grades[i].course_id].credits + PointsOfGrades(ids \ {i})

\* The grade rows of a student that join a course.
GradesOfStudent(student_id) ==
    {i \in DOMAIN grades :
        grades[i].student_id = student_id /\ grades[i].course_id \in DOMAIN courses}

\* C5: get_student_transcript returns None when no student row has the id;
\* otherwise total_credits is the sum of the joined course credits over the
\* student's grade rows, and gpa is the credit-weighted sum of the letters'
\* points divided by total_credits, to the nearest hundredth, or exactly 0
\* with total_credits = 0 when the student has no grade rows.
C5_Transcript ==
    last.op = "Grade.get_student_transcript" =>
        /\ last.exc = ""
        /\ (last.val = <<>>) <=> (last.arg \notin DOMAIN students)
        /\ last.val # <<>> =>
            LET t == last.val[1]
                credits == CreditsOfGrades(GradesOfStudent(last.arg))
                points == PointsOfGrades(GradesOfStudent(last.arg))
            IN  /\ t.total_credits = credits
                /\ GradesOfStudent(last.arg) = {} => t.total_credits = 0 /\ t.gpa = 0
                /\ 2 * (100 * points - t.gpa * credits) <= credits
                /\ 2 * (t.gpa * credits - 100 * points) <= credits

\* A transcript over a B in the 3-credit course and an E in the 5-credit
\* course: 9 points over 8 credits, 1.125, returned as 1.12.
C5_Witness ==
    /\ last.op = "Grade.get_student_transcript"
    /\ last.val # <<>>
    /\ last.val[1].total_credits = 8
    /\ last.val[1].gpa = 112

OtherGradeFieldsKept(old, new) ==
    /\ new.student_id = old.student_id
    /\ new.course_id = old.course_id
    /\ new.semester = old.semester
    /\ new.academic_year = old.academic_year

GradeUpdateContract ==
    last'.op = "Grade.update" =>
        \A id \in GradeIds, score \in ScoreInputs \ {NoneNum} :
            GradeUpdate(id, score, TRUE, TRUE) =>
                IF id \notin DOMAIN grades \/ score < 0 \/ score > 100 * ScoreScale
                THEN last'.val = FALSE /\ grades' = grades
                ELSE /\ last'.val = TRUE
                     /\ DOMAIN grades' = DOMAIN grades
                     /\ grades'[id].score = score
                     /\ grades'[id].grade_letter = calculate_grade_letter(score)
                     /\ OtherGradeFieldsKept(grades[id], grades'[id])
                     /\ \A i \in DOMAIN grades \ {id} : grades'[i] = grades[i]

\* C10: Grade.update(id, newScore) returns False and leaves the grades table
\* unchanged when id matches no row or newScore is outside [0,100]; otherwise
\* it returns True, sets score and grade_letter of that row together, and
\* leaves the row's student_id, course_id, semester, academic_year and every
\* other row unchanged.
C10_GradeUpdate == [][GradeUpdateContract]_vars

\* A Grade.update of a stored row has been refused for its score.
C10_Witness ==
    /\ last.op = "Grade.update"
    /\ last.msg = "Score must be between 0 and 100"
    /\ last.val = FALSE
    /\ grades # EmptyTable

(***************************************************************************)
(* Student repository alone, from an empty store (SpecStudent)             *)
(***************************************************************************)
\* Ids handed to update and delete: every id a table can have issued, and
\* one it cannot.
RowIds == 1 .. MaxId + 1

StudentCreateInputs ==
    {<<"2021001", "Ada", "CS", None, None>>,
     <<"2021002", "Bob", "EE", "bob@x.org", None>>,
     <<"", "Ada", "CS", None, None>>,
     <<None, "Ada", "CS", None, None>>,
     <<"2021001", "", "CS", None, None>>,
     <<"2021001", "Ada", None, None, None>>}

\* Fieldsets handed to Student.update: one field, several fields, a None
\* value, the key nim (not updatable), and fieldsets that name no
\* recognized non-None field.
StudentKwargs ==
    {<< <<"name", "Eve">> >>,
     << <<"name", "Eve">>, <<"email", "new@x.org">> >>,
     << <<"major", "Math">>, <<"phone", "0812">> >>,
     << <<"name", None>>, <<"major", "Math">> >>,
     << <<"nim", "2021009">>, <<"phone", "0812">> >>,
     << <<"nim", "2021009">> >>,
     << <<"email", None>> >>,
     << >>}

InitEmpty == EmptyStore /\ last = NoCall

NextStudent ==
    \/ \E a \in StudentCreateInputs : StudentCreate(a[1], a[2], a[3], a[4], a[5], TRUE, TRUE)
    \/ \E id \in RowIds, kwargs \in StudentKwargs : StudentUpdate(id, kwargs, TRUE, TRUE)
    \/ \E id \in RowIds : StudentDelete(id, TRUE, TRUE)

SpecStudent == InitEmpty /\ [][NextStudent]_vars

StudentFields == {"nim", "name", "major", "email", "phone"}

\* The positions of a fieldset that name an updatable field with a non-None
\* value.
GivenStudentFields(kwargs) ==
    {k \in 1 .. Len(kwargs) :
        kwargs[k][1] \in {"name", "major", "email", "phone"} /\ kwargs[k][2] # None}

StudentUpdateContract ==
    last'.op = "Student.update" =>
        \A id \in RowIds, kwargs \in StudentKwargs :
            StudentUpdate(id, kwargs, TRUE, TRUE) =>
                IF id \notin DOMAIN students \/ GivenStudentFields(kwargs) = {}
                THEN last'.val = FALSE /\ students' = students
                ELSE /\ last'.val = TRUE
                     /\ DOMAIN students' = DOMAIN students
                     /\ \A i \in DOMAIN students \ {id} : students'[i] = students[i]
                     /\ \A f \in StudentFields :
                            IF \E k \in GivenStudentFields(kwargs) : kwargs[k][1] = f
                            THEN \E k \in GivenStudentFields(kwargs) :
                                    kwargs[k][1] = f /\ students'[id][f] = kwargs[k][2]
                            ELSE students'[id][f] = students[id][f]

\* C9: Student.update(id, fieldset) on an existing id sets exactly the fields
\* that are in {name, major, email, phone} and given a non-None value, and
\* leaves nim, every skipped or unknown field and every other row unchanged;
\* it returns False and changes nothing when the fieldset has no recognized
\* non-None field or when id matches no row.
C9_StudentUpdate == [][StudentUpdateContract]_vars

\* A Student.update has succeeded on one of two rows: Ada's major is Math,
\* her name (given as None, or not given) is kept.
C9_Witness ==
    /\ last.op = "Student.update"
    /\ last.val = TRUE
    /\ Cardinality(DOMAIN students) = 2
    /\ \E i \in DOMAIN students :
        students[i].major = "Math" /\ students[i].name = "Ada"

(***************************************************************************)
(* Course repository alone, from an empty store (SpecCourse)               *)
(***************************************************************************)
CourseCreateInputs ==
    {<<"CS101", "Algorithms", 3, 1, None>>,
     <<"CS102", "Databases", 6, 8, "Relational databases">>,
     <<"", "Algorithms", 3, 1, None>>,
     <<"CS101", None, 3, 1, None>>,
     <<"CS101", "Algorithms", NoneNum, 1, None>>,
     <<"CS101", "Algorithms", 3, NoneNum, None>>,
     <<"CS103", "Networks", 7, 1, None>>,
     <<"CS103", "Networks", 0, 1, None>>,
     <<"CS103", "Networks", -1, 1, None>>,
     <<"CS103", "Networks", 3, 9, None>>,
     <<"CS103", "Networks", 3, 0, None>>,
     <<"CS103", "Networks", 3, -1, None>>}

\* Fieldsets handed to Course.update: valid ones, and ones whose credits or
\* semester is out of range, before and after valid fields.
CourseKwargs ==
    {<< <<"name", "Algorithms II">>, <<"credits", 4>> >>,
     << <<"semester", 2>>, <<"description", "Revised">> >>,
     << <<"credits", NoneNum>>, <<"semester", 2>> >>,
     << <<"name", "Algorithms II">>, <<"credits", 7>> >>,
     << <<"credits", 7>>, <<"name", "Algorithms II">> >>,
     << <<"credits", 4>>, <<"semester", 9>> >>,
     << <<"semester", 0>>, <<"credits", 4>> >>,
     << <<"description", "Revised">>, <<"credits", 0>> >>,
     << <<"credits", -1>> >>,
     << <<"code", "CS109">>, <<"name", "Algorithms II">> >>,
     << <<"code", "CS109">> >>,
     << >>}

NextCourse ==
    \/ \E a \in CourseCreateInputs : CourseCreate(a[1], a[2], a[3], a[4], a[5], TRUE, TRUE)
    \/ \E id \in RowIds, kwargs \in CourseKwargs : CourseUpdate(id, kwargs, TRUE, TRUE)
    \/ \E id \in RowIds : CourseDelete(id, TRUE, TRUE)

SpecCourse == InitEmpty /\ [][NextCourse]_vars

CourseRangesHold ==
    \A i \in DOMAIN courses : courses[i].credits \in 1 .. 6 /\ courses[i].semester \in 1 .. 8

OutOfRangeCreateIsRefused ==
    last'.op = "Course.create" =>
        \A a \in CourseCreateInputs :
            (CourseCreate(a[1], a[2], a[3], a[4], a[5], TRUE, TRUE)
                /\ (a[3] \notin 1 .. 6 \/ a[4] \notin 1 .. 8))
            => last'.val = NoneNum /\ courses' = courses

\* C7: every stored course row has credits in 1..6 and semester in 1..8, and
\* a Course.create with credits outside 1..6 or semester outside 1..8
\* returns None and creates no row.
C7_CourseRanges == []CourseRangesHold /\ [][OutOfRangeCreateIsRefused]_vars

\* A Course.create has been refused for its credits, and a Course.update has
\* before that changed the credits of a stored row to 4.
C7_Witness ==
    /\ last.op = "Course.create"
    /\ last.msg = "Credits must be between 1 and 6"
    /\ last.val = NoneNum
    /\ \E i \in DOMAIN courses : courses[i].credits = 4

\* A fieldset that gives a credits or a semester value out of range.
GivesOutOfRange(kwargs) ==
    \E k \in 1 .. Len(kwargs) :
        \/ kwargs[k][1] = "credits" /\ kwargs[k][2] # NoneNum /\ kwargs[k][2] \notin 1 .. 6
        \/ kwargs[k][1] = "semester" /\ kwargs[k][2] # NoneNum /\ kwargs[k][2] \notin 1 .. 8

OutOfRangeUpdateIsRefused ==
    last'.op = "Course.update" =>
        \A id \in RowIds, kwargs \in CourseKwargs :
            (CourseUpdate(id, kwargs, TRUE, TRUE) /\ GivesOutOfRange(kwargs))
                => last'.val = FALSE /\ courses' = courses

\* C8: a Course.update whose fieldset gives a credits value outside 1..6 or a
\* semester value outside 1..8 returns False and changes no field of any
\* course row, whatever valid fields the fieldset also carries, in whatever
\* order.
C8_CourseUpdateAtomic == [][OutOfRangeUpdateIsRefused]_vars

\* A Course.update of a stored row has been refused for its semester.
C8_Witness ==
    /\ last.op = "Course.update"
    /\ last.msg = "Semester must be between 1 and 8"
    /\ last.val = FALSE
    /\ courses # EmptyTable

(***************************************************************************)
(* Student and course repositories together, from an empty store           *)
(* (SpecCatalog)                                                           *)
(***************************************************************************)
CatalogStudentInputs ==
    {<<"2021001", "Ada", "CS", None, None>>,
     <<"2021002", "Bob", "EE", None, None>>,
     <<"", "Ada", "CS", None, None>>}

\* Fieldsets that rename a student, and that try to give it the nim of
\* another.
CatalogStudentKwargs ==
    {<< <<"name", "Eve">> >>,
     << <<"nim", "2021002">>, <<"name", "Eve">> >>,
     << <<"nim", "2021001">> >>}

CatalogCourseInputs ==
    {<<"CS101", "Algorithms", 3, 1, None>>,
     <<"CS102", "Databases", 5, 2, None>>,
     <<"CS101", "Algorithms", 7, 1, None>>}

CatalogCourseKwargs ==
    {<< <<"credits", 4>> >>,
     << <<"code", "CS102">>, <<"credits", 4>> >>,
     << <<"code", "CS101">> >>}

NextCatalog ==
    \/ \E a \in CatalogStudentInputs : StudentCreate(a[1], a[2], a[3], a[4], a[5], TRUE, TRUE)
    \/ \E id \in RowIds, kwargs \in CatalogStudentKwargs : StudentUpdate(id, kwargs, TRUE, TRUE)
    \/ \E id \in RowIds : StudentDelete(id, TRUE, TRUE)
    \/ \E a \in CatalogCourseInputs : CourseCreate(a[1], a[2], a[3], a[4], a[5], TRUE, TRUE)
    \/ \E id \in RowIds, kwargs \in CatalogCourseKwargs : CourseUpdate(id, kwargs, TRUE, TRUE)
    \/ \E id \in RowIds : CourseDelete(id, TRUE, TRUE)

SpecCatalog == InitEmpty /\ [][NextCatalog]_vars

\* The same calls on a Store that may fail the read or the write of a call:
\* fetch_one then returns None and execute_query returns False.
NextCatalogFaulty ==
    \/ \E a \in CatalogStudentInputs, rd, wr \in BOOLEAN :
            StudentCreate(a[1], a[2], a[3], a[4], a[5], rd, wr)
    \/ \E id \in RowIds, kwargs \in CatalogStudentKwargs, rd, wr \in BOOLEAN :
            StudentUpdate(id, kwargs, rd, wr)
    \/ \E id \in RowIds, rd, wr \in BOOLEAN : StudentDelete(id, rd, wr)
    \/ \E a \in CatalogCourseInputs, rd, wr \in BOOLEAN :
            CourseCreate(a[1], a[2], a[3], a[4], a[5], rd, wr)
    \/ \E id \in RowIds, kwargs \in CatalogCourseKwargs, rd, wr \in BOOLEAN :
            CourseUpdate(id, kwargs, rd, wr)
    \/ \E id \in RowIds, rd, wr \in BOOLEAN : CourseDelete(id, rd, wr)

SpecCatalogFaulty == InitEmpty /\ [][NextCatalogFaulty]_vars

NaturalKeysUnique ==
    /\ \A i, j \in DOMAIN students : students[i].nim = students[j].nim => i = j
    /\ \A i, j \in DOMAIN courses : courses[i].code = courses[j].code => i = j

DuplicateKeyIsRefused ==
    /\ last'.op = "Student.create" =>
        \A a \in CatalogStudentInputs, rd, wr \in BOOLEAN :
            (StudentCreate(a[1], a[2], a[3], a[4], a[5], rd, wr)
                /\ \E i \in DOMAIN students : students[i].nim = a[1])
            => last'.val = NoneNum /\ students' = students
    /\ last'.op = "Course.create" =>
        \A a \in CatalogCourseInputs, rd, wr \in BOOLEAN :
            (CourseCreate(a[1], a[2], a[3], a[4], a[5], rd, wr)
                /\ \E i \in DOMAIN courses : courses[i].code = a[1])
            => last'.val = NoneNum /\ courses' = courses

NaturalKeysKept ==
    /\ \A i \in DOMAIN students \cap DOMAIN students' : students'[i].nim = students[i].nim
    /\ \A i \in DOMAIN courses \cap DOMAIN courses' : courses'[i].code = courses[i].code

\* C6: after any sequence of Student and Course create/update/delete calls no
\* two student rows share a nim and no two course rows share a code; a create
\* whose natural key already exists returns None and adds no row; no call
\* changes the nim of a student or the code of a course.  It holds along
\* SpecCatalog, where every statement succeeds, and fails along
\* SpecCatalogFaulty: a create whose pre-check read fails takes the None of
\* fetch_one for "no such row" and inserts the key a second time.
C6_NaturalKeys ==
    /\ []NaturalKeysUnique
    /\ [][DuplicateKeyIsRefused /\ NaturalKeysKept]_vars

\* A Course.create has been refused as a duplicate while two students, one
\* of them renamed by an update, are stored.
C6_Witness ==
    /\ last.op = "Course.create"
    /\ last.msg = "Course with code already exists"
    /\ last.val = NoneNum
    /\ Cardinality(DOMAIN students) = 2
    /\ \E i \in DOMAIN students : students[i].name = "Eve"

\* C3: on the whole grid of [0,100], calculate_grade_letter returns A iff
\* score >= 85, B iff 70 <= score < 85, C iff 60 <= score < 70, D iff
\* 50 <= score < 60, E iff score < 50; the result is one of A..E.
C3_LetterBands ==
    last.op = "calculate_grade_letter" =>
        /\ last.val \in Letters
        /\ (last.val = "A") <=> (last.arg >= 85 * ScoreScale)
        /\ (last.val = "B") <=> (70 * ScoreScale <= last.arg /\ last.arg < 85 * ScoreScale)
        /\ (last.val = "C") <=> (60 * ScoreScale <= last.arg /\ last.arg < 70 * ScoreScale)
        /\ (last.val = "D") <=> (50 * ScoreScale <= last.arg /\ last.arg < 60 * ScoreScale)
        /\ (last.val = "E") <=> (last.arg < 50 * ScoreScale)

\* The lower edge of the A band (85 exactly) has been graded A.
C3_Witness ==
    /\ last.op = "calculate_grade_letter"
    /\ last.arg = 85 * ScoreScale
    /\ last.val = "A"

\* C4: grade_to_gpa maps A, B, C, D, E to 4, 3, 2, 1, 0 and every other
\* input, None included, to 0, raising nothing.
C4_GpaTable ==
    last.op = "grade_to_gpa" =>
        /\ last.exc = ""
        /\ last.arg = "A" => last.val = 4
        /\ last.arg = "B" => last.val = 3
        /\ last.arg = "C" => last.val = 2
        /\ last.arg = "D" => last.val = 1
        /\ last.arg = "E" => last.val = 0
        /\ last.arg \notin Letters => last.val = 0

\* grade_to_gpa has been called with None and returned 0.
C4_Witness ==
    /\ last.op = "grade_to_gpa"
    /\ last.arg = None
    /\ last.val = 0

(***************************************************************************)
(* The three repositories together, over the store of InitGrade            *)
(* (SpecRegistry): grades are entered, and students, courses and grades    *)
(* are deleted.                                                            *)
(***************************************************************************)
GetStudentGrades(student_id, rd) ==
    /\ last' = [Call("Grade.get_student_grades", student_id,
                     get_student_grades(student_id, rd), "", "")
                    EXCEPT !.io = <<Select(rd)>>]
    /\ UNCHANGED <<students, courses, grades, nextId, instances>>

\* Arguments of Grade.create: student 1 in courses 1 and 2, student 2 in
\* course 1, and a student and a course that are not stored.
RegistryGradeArgs ==
    {<<1, 1, 0, 1, "2024/2025">>, <<1, 2, 85 * ScoreScale, 1, "2024/2025">>,
     <<2, 1, 0, 1, "2024/2025">>, <<3, 1, 0, 1, "2024/2025">>,
     <<1, 4, 0, 1, "2024/2025">>}

\* Ids handed to Course.delete: the three stored courses and one that is not.
CourseIds == {1, 2, 3, 4}

NextRegistry ==
    \/ \E a \in RegistryGradeArgs : GradeCreate(a[1], a[2], a[3], a[4], a[5], TRUE, TRUE)
    \/ \E id \in StudentIds : StudentDelete(id, TRUE, TRUE)
    \/ \E id \in CourseIds : CourseDelete(id, TRUE, TRUE)
    \/ \E id \in GradeIds : GradeDelete(id, TRUE, TRUE)
    \/ \E student_id \in StudentIds : GetStudentGrades(student_id, TRUE)

SpecRegistry == InitGrade /\ [][NextRegistry]_vars

\* What delete(id) owes on one table: failure and an unchanged store when id
\* matches no row; else success, id gone, and the other rows as they were.
DeleteOutcome(before, after, id) ==
    IF id \in DOMAIN before
    THEN /\ last'.val = TRUE
         /\ find_by_id(after, id, TRUE) = <<>>
         /\ DOMAIN after = DOMAIN before \ {id}
         /\ \A i \in DOMAIN after : after[i] = before[i]
    ELSE /\ last'.val = FALSE
         /\ UNCHANGED <<students, courses, grades, nextId>>

DeleteContract ==
    /\ last'.op = "Student.delete" =>
        \A id \in StudentIds :
            StudentDelete(id, TRUE, TRUE) => DeleteOutcome(students, students', id)
    /\ last'.op = "Course.delete" =>
        \A id \in CourseIds :
            CourseDelete(id, TRUE, TRUE) => DeleteOutcome(courses, courses', id)
    /\ last'.op = "Grade.delete" =>
        \A id \in GradeIds :
            GradeDelete(id, TRUE, TRUE) => DeleteOutcome(grades, grades', id)

\* C11: for Student, Course and Grade, delete(id) on an id that matches no
\* row returns False and leaves the store unchanged; on an existing row it
\* returns True, find_by_id(id) then returns None, and every other row of
\* the table is unchanged.
C11_Delete == [][DeleteContract]_vars

\* Student 1 has been deleted while student 2 is stored, after a grade was
\* entered.
C11_Witness ==
    /\ last.op = "Student.delete"
    /\ last.val = TRUE
    /\ DOMAIN students = {2}
    /\ nextId.grades > 1

\* Every grade row references a stored student and a stored course.
GradesReferenceRows ==
    \A i \in DOMAIN grades :
        grades[i].student_id \in DOMAIN students /\ grades[i].course_id \in DOMAIN courses

\* A student that is not stored has no grades to list.
NoGradesOfDeleted ==
    \A student_id \in StudentIds \ DOMAIN students :
        get_student_grades(student_id, TRUE) = <<>>

CascadeOnDelete ==
    /\ (last'.op = "Student.delete" /\ last'.val = TRUE) =>
        \A id \in StudentIds :
            StudentDelete(id, TRUE, TRUE) =>
                /\ \A i \in DOMAIN grades' : grades'[i].student_id # id
                /\ \A i \in DOMAIN grades' : i \in DOMAIN grades /\ grades'[i] = grades[i]
    /\ (last'.op = "Course.delete" /\ last'.val = TRUE) =>
        \A id \in CourseIds :
            CourseDelete(id, TRUE, TRUE) =>
                \A i \in DOMAIN grades' : grades'[i].course_id # id

\* A listing of a student's grades returns the rows that reference the
\* student, so none for a student that is not stored.
ListingIsOfStoredRows ==
    last.op = "Grade.get_student_grades" =>
        /\ Len(last.val) = Cardinality({i \in DOMAIN grades : grades[i].student_id = last.arg})
        /\ last.arg \notin DOMAIN students => last.val = <<>>

\* C12: after a successful Student.delete(id) of a student that has grade
\* rows no grade row with student_id = id remains, and get_student_grades(id)
\* returns the empty sequence from then on; after a successful Course.delete
\* no grade row references the deleted course.
C12_Cascade ==
    /\ [](GradesReferenceRows /\ NoGradesOfDeleted /\ ListingIsOfStoredRows)
    /\ [][CascadeOnDelete]_vars

\* Two grades were entered, the first for student 2; student 1 was deleted,
\* the grade of student 2 is the one still stored, and the grades of student
\* 1 were then listed as empty.
C12_Witness ==
    /\ last.op = "Grade.get_student_grades"
    /\ last.arg = 1
    /\ last.val = <<>>
    /\ 1 \notin DOMAIN students
    /\ DOMAIN grades = {1}
    /\ grades[1].student_id = 2
    /\ nextId.grades = 3

(***************************************************************************)
(* Creates and updates of the three repositories with arguments that fail  *)
(* validation, over the store of InitGrade (SpecValidation)                *)
(***************************************************************************)
ValidationStudentInputs ==
    {<<"2021003", "Cy", "CS", None, None>>,
     <<"2021001", "Ada", "CS", None, None>>,
     <<"", "Ada", "CS", None, None>>,
     <<"2021003", None, "CS", None, None>>}

ValidationStudentKwargs ==
    {<< <<"name", "Eve">> >>,
     << <<"nim", "2021009">> >>,
     << <<"email", None>> >>,
     << >>}

ValidationCourseInputs ==
    {<<"CS104", "Compilers", 2, 3, None>>,
     <<"CS101", "Algorithms", 3, 1, None>>,
     <<"", "Compilers", 2, 3, None>>,
     <<"CS104", "Compilers", NoneNum, 3, None>>,
     <<"CS104", "Compilers", 2, NoneNum, None>>,
     <<"CS104", "Compilers", 7, 3, None>>,
     <<"CS104", "Compilers", 2, 9, None>>}

ValidationCourseKwargs ==
    {<< <<"credits", 4>> >>,
     << <<"name", "Algorithms II">>, <<"credits", 7>> >>,
     << <<"semester", 0>> >>,
     << <<"code", "CS109">> >>}

ValidationGradeArgs ==
    {<<1, 1, 0, 1, "2024/2025">>, <<2, 1, 85 * ScoreScale, 1, "2024/2025">>}
        \cup InvalidGradeArgs

NextValidation ==
    \/ \E a \in ValidationStudentInputs :
            StudentCreate(a[1], a[2], a[3], a[4], a[5], TRUE, TRUE)
    \/ \E id \in StudentIds, kwargs \in ValidationStudentKwargs :
            StudentUpdate(id, kwargs, TRUE, TRUE)
    \/ \E a \in ValidationCourseInputs :
            CourseCreate(a[1], a[2], a[3], a[4], a[5], TRUE, TRUE)
    \/ \E id \in CourseIds, kwargs \in ValidationCourseKwargs :
            CourseUpdate(id, kwargs, TRUE, TRUE)
    \/ \E a \in ValidationGradeArgs :
            GradeCreate(a[1], a[2], a[3], a[4], a[5], TRUE, TRUE)
    \/ \E id \in GradeIds, score \in ScoreInputs : GradeUpdate(id, score, TRUE, TRUE)

SpecValidation == InitGrade /\ [][NextValidation]_vars

\* The lines printed for a call that fails validation: a required field
\* missing or empty, a value out of range, no recognized field to update.
ValidationMessages ==
    {"NIM, name, and major are required",
     "Code, name, credits, and semester are required",
     "Student ID, course ID, and score are required",
     "Credits must be between 1 and 6",
     "Semester must be between 1 and 8",
     "Score must be between 0 and 100",
     "No valid fields to update"}

CreateOps == {"Student.create", "Course.create", "Grade.create"}

UpdateOps == {"Student.update", "Course.update", "Grade.update"}

FailedValidation ==
    last.op \in CreateOps \cup UpdateOps /\ last.msg \in ValidationMessages

C14_NoUncaughtFault ==
    last.op \in CreateOps \cup UpdateOps =>
        /\ last.exc = ""
        /\ last.msg \in ValidationMessages =>
            (IF last.op \in CreateOps THEN last.val = NoneNum ELSE last.val = FALSE)

\* Course.create has been called with credits or semester absent and has
\* returned None.
C14_Witness ==
    /\ last.op = "Course.create"
    /\ last.msg = "Code, name, credits, and semester are required"
    /\ last.val = NoneNum
    /\ last.exc = ""

(***************************************************************************)
(* The three repositories over a Store that may fail the read or the write *)
(* of a call, from the store of InitGrade (SpecStoreFaults)                *)
(***************************************************************************)
FaultStudentInputs ==
    {<<"2021001", "Ada", "CS", None, None>>, <<"2021003", "Cy", "CS", None, None>>}

FaultCourseInputs ==
    {<<"CS101", "Algorithms", 3, 1, None>>, <<"CS104", "Compilers", 2, 3, None>>}

FaultGradeArgs ==
    {<<1, 1, 0, 1, "2024/2025">>, <<2, 1, 85 * ScoreScale, 1, "2024/2025">>}

NextStoreFaults ==
    \/ \E a \in FaultStudentInputs, rd, wr \in BOOLEAN :
            StudentCreate(a[1], a[2], a[3], a[4], a[5], rd, wr)
    \/ \E id \in StudentIds, rd, wr \in BOOLEAN :
            StudentUpdate(id, << <<"name", "Eve">> >>, rd, wr)
    \/ \E id \in StudentIds, rd, wr \in BOOLEAN : StudentDelete(id, rd, wr)
    \/ \E a \in FaultCourseInputs, rd, wr \in BOOLEAN :
            CourseCreate(a[1], a[2], a[3], a[4], a[5], rd, wr)
    \/ \E id \in CourseIds, rd, wr \in BOOLEAN :
            CourseUpdate(id, << <<"credits", 4>> >>, rd, wr)
    \/ \E id \in CourseIds, rd, wr \in BOOLEAN : CourseDelete(id, rd, wr)
    \/ \E a \in FaultGradeArgs, rd, wr \in BOOLEAN :
            GradeCreate(a[1], a[2], a[3], a[4], a[5], rd, wr)
    \/ \E id \in GradeIds, rd, wr \in BOOLEAN : GradeUpdate(id, 85 * ScoreScale, rd, wr)
    \/ \E id \in GradeIds, rd, wr \in BOOLEAN : GradeDelete(id, rd, wr)

SpecStoreFaults == InitGrade /\ [][NextStoreFaults]_vars

DeleteOps == {"Student.delete", "Course.delete", "Grade.delete"}

\* The Store failed a statement of the call that last completed.
StatementFailed ==
    \E k \in 1 .. Len(last.io) : last.io[k] \in FailedStatements

ReturnedFailure ==
    /\ last.op \in CreateOps => last.val = NoneNum
    /\ last.op \in UpdateOps \cup DeleteOps => last.val = FALSE

\* C15: whenever the Store fails a statement of a create, update or delete
\* call, the pre-check read as well as the write, the call returns its
\* failure value and the store holds the rows it held before the call; a
\* failed duplicate pre-check read is never taken for "no existing row".
C15_StoreFailureIsFailure ==
    [][StatementFailed' =>
        /\ ReturnedFailure'
        /\ UNCHANGED <<students, courses, grades, nextId>>]_vars

\* A write failed after a read that succeeded: the call returned its
\* failure value (here Grade.update, on a stored row).
C15_Witness ==
    /\ last.op = "Grade.update"
    /\ last.io = <<"SELECT", "UPDATE failed">>
    /\ last.val = FALSE
    /\ grades # EmptyTable

(***************************************************************************)
(* Repository instances and the connection pool (models/base_model.py,     *)
(* config/database.py), over the store of InitGrade (SpecPool).  The pool  *)
(* has been created and there is one caller, so one call is in progress at *)
(* a time.  An instance is released when its last reference goes, which    *)
(* for the local student_model of get_student_transcript is the return of  *)
(* the call.                                                               *)
(***************************************************************************)
POOL_SIZE == 5

\* Instances that can be live at once.
MaxInstances == 6

InstanceNames == 1 .. MaxInstances

Models == {"Student", "Grade"}

\* temp: the Student accessor of a get_student_transcript call in progress:
\* "none", or "held" / "unconnected" by whether its connect() succeeded.
\* pending: the arguments of a create that has run its pre-check query and
\* not yet its INSERT (<<>> when there is none).
Instance(model, connected) ==
    [model |-> model, connected |-> connected, temp |-> "none", student_id |-> 0,
     pending |-> <<>>]

\* Connections out of the pool, and accessors alive.
Held ==
    Cardinality({i \in DOMAIN instances : instances[i].connected})
        + Cardinality({i \in DOMAIN instances : instances[i].temp = "held"})

Live ==
    Cardinality(DOMAIN instances)
        + Cardinality({i \in DOMAIN instances : instances[i].temp # "none"})

\* No get_student_transcript call is in progress.
Idle == \A i \in DOMAIN instances : instances[i].temp = "none"

\* connect(): get_connection raises an Error when the pool has no free
\* connection or the server cannot be reached (up is FALSE); connect catches
\* it and returns False, and self.connection stays None.
connect(up) == up /\ Held < POOL_SIZE

\* BaseModel.__init__: the result of connect() is not looked at.
Construct(model, up) ==
    /\ Idle
    /\ DOMAIN instances # InstanceNames
    /\ instances' = Inserted(instances, MinOf(InstanceNames \ DOMAIN instances),
                             Instance(model, connect(up)))
    /\ last' = Call("BaseModel.__init__", model, connect(up), "", "")
    /\ UNCHANGED <<students, courses, grades, nextId>>

\* BaseModel.__del__: disconnect closes the connection if there is one.
Teardown(i) ==
    /\ Idle
    /\ i \in DOMAIN instances
    /\ instances' = Deleted(instances, {i})
    /\ last' = Call("BaseModel.__del__", instances[i].model, instances[i].connected, "", "")
    /\ UNCHANGED <<students, courses, grades, nextId>>

\* get_student_transcript up to student_model = Student().
TranscriptEnter(i, student_id, up) ==
    /\ i \in DOMAIN instances
    /\ instances[i].model = "Grade"
    /\ Idle
    /\ instances' = [instances EXCEPT
            ![i].temp = IF connect(up) THEN "held" ELSE "unconnected",
            ![i].student_id = student_id]
    /\ last' = Call("Grade.get_student_transcript:call", student_id, <<>>, "", "")
    /\ UNCHANGED <<students, courses, grades, nextId>>

\* The rest of get_student_transcript.  An accessor without a connection has
\* no cursor: its first query raises AttributeError, which is no Error and
\* is not caught.  student_model is released as the call is left.
TranscriptLeave(i) ==
    /\ i \in DOMAIN instances
    /\ instances[i].temp # "none"
    /\ instances' = [instances EXCEPT ![i].temp = "none", ![i].student_id = 0]
    /\ LET student_id == instances[i].student_id
       IN  IF instances[i].temp = "unconnected"
           THEN last' = [Call("Grade.get_student_transcript", student_id, <<>>,
                              "AttributeError", "") EXCEPT !.io = <<>>]
           ELSE IF find_by_id(students, student_id, TRUE) = <<>>
           THEN last' = [Call("Grade.get_student_transcript", student_id, <<>>, "",
                              "Student not found") EXCEPT !.io = <<"SELECT">>]
           ELSE IF ~instances[i].connected
           THEN last' = [Call("Grade.get_student_transcript", student_id, <<>>,
                              "AttributeError", "") EXCEPT !.io = <<"SELECT">>]
           ELSE last' = [Call("Grade.get_student_transcript", student_id,
                              get_student_transcript(student_id, TRUE, TRUE), "", "")
                         EXCEPT !.io = <<"SELECT", "SELECT">>]
    /\ UNCHANGED <<students, courses, grades, nextId>>

NextPool ==
    \/ \E model \in Models, up \in BOOLEAN : Construct(model, up)
    \/ \E i \in InstanceNames : Teardown(i)
    \/ \E i \in InstanceNames, student_id \in {1, 3}, up \in BOOLEAN :
            TranscriptEnter(i, student_id, up)
    \/ \E i \in InstanceNames : TranscriptLeave(i)

SpecPool == InitGrade /\ [][NextPool]_vars

\* C16: every repository instance, the temporary Student accessor of
\* get_student_transcript included, holds exactly one pooled connection from
\* its construction to its teardown, so the connections held are as many as
\* the live instances and never more than the pool size; the temporary
\* accessor is gone when get_student_transcript has returned, found or not.
C16_OneConnectionPerInstance ==
    /\ \A i \in DOMAIN instances :
            instances[i].connected /\ instances[i].temp # "unconnected"
    /\ Held = Live
    /\ Held <= POOL_SIZE
    /\ last.op = "Grade.get_student_transcript" => Idle

\* The pool never hands out more than POOL_SIZE connections, and a
\* connection that is out of the pool belongs to a live accessor.
PoolWithinSize == Held <= POOL_SIZE /\ Held <= Live

\* get_student_transcript has returned None for a student that is not
\* stored; its temporary accessor, which held the last free connection of
\* the pool, is gone.
C16_Witness ==
    /\ last.op = "Grade.get_student_transcript"
    /\ last.msg = "Student not found"
    /\ Idle
    /\ Held = POOL_SIZE - 1
    /\ Live = POOL_SIZE - 1

(***************************************************************************)
(* Two callers of Grade.create and two of Student.create, each on its own  *)
(* instance and connection (SpecRace).  A create is two steps, its         *)
(* pre-check query and its INSERT; steps of different callers interleave.  *)
(* Every statement is committed as it is executed (execute_query commits). *)
(***************************************************************************)
\* Row ids a table can issue in SpecRace.
MaxRaceId == 3

InitRace ==
    /\ students = <<StudentRow("2021001", "Ada", "CS", None, None)>>
    /\ courses = <<CourseRow("CS101", "Algorithms", 3, 1, None)>>
    /\ grades = EmptyTable
    /\ nextId = [students |-> 2, courses |-> 2, grades |-> 1]
    /\ last = NoCall
    /\ instances = <<Instance("Grade", TRUE), Instance("Grade", TRUE),
                     Instance("Student", TRUE), Instance("Student", TRUE)>>

RaceGradeArgs ==
    {<<1, 1, 0, 1, "2024/2025">>, <<1, 1, 85 * ScoreScale, 1, "2024/2025">>,
     <<1, 1, 0, 2, "2024/2025">>}

RaceStudentInputs ==
    {<<"2021002", "Bob", "CS", None, None>>, <<"2021001", "Ada", "CS", None, None>>}

\* Grade.create up to the result of find_by_student_course (grade.py:78-101).
GradeCreateCheck(c, a) ==
    /\ c \in DOMAIN instances
    /\ instances[c].model = "Grade"
    /\ instances[c].pending = <<>>
    /\ IF find_by_student_course(a[1], a[2], a[4], a[5], TRUE) # <<>>
       THEN /\ last' = [Call("Grade.create", <<>>, NoneNum, "",
                             "Grade already exists for this student-course")
                        EXCEPT !.io = <<"SELECT">>]
            /\ UNCHANGED instances
       ELSE /\ last' = [Call("Grade.create:checked", <<>>, NoneNum, "", "")
                        EXCEPT !.io = <<"SELECT">>]
            /\ instances' = [instances EXCEPT ![c].pending = a]
    /\ UNCHANGED <<students, courses, grades, nextId>>

\* A Store with a uniqueness constraint on the quadruple: the INSERT of a
\* quadruple that is stored fails.
GradeCreateInsertUnique(c) ==
    /\ c \in DOMAIN instances
    /\ instances[c].model = "Grade"
    /\ instances[c].pending # <<>>
    /\ nextId.grades <= MaxRaceId
    /\ LET a == instances[c].pending
       IN  IF find_by_student_course(a[1], a[2], a[4], a[5], TRUE) = <<>>
           THEN /\ grades' = Inserted(grades, nextId.grades,
                                      NewGradeRow(a[1], a[2], a[3], a[4], a[5]))
                /\ nextId' = [nextId EXCEPT !.grades = @ + 1]
                /\ last' = [Call("Grade.create", <<>>, nextId.grades, "", "Grade created")
                            EXCEPT !.io = <<"SELECT", "INSERT">>]
           ELSE /\ last' = [Call("Grade.create", <<>>, NoneNum, "", QueryFailed)
                            EXCEPT !.io = <<"SELECT", "INSERT failed">>]
                /\ UNCHANGED <<grades, nextId>>
    /\ instances' = [instances EXCEPT ![c].pending = <<>>]
    /\ UNCHANGED <<students, courses>>

\* The rest of Grade.create: the INSERT (grade.py:103-118).
GradeCreateInsert(c) ==
    /\ c \in DOMAIN instances
    /\ instances[c].model = "Grade"
    /\ instances[c].pending # <<>>
    /\ nextId.grades <= MaxRaceId
    /\ LET a == instances[c].pending
       IN  IF execute_query(TRUE, ForeignKeysHold(a[1], a[2]))
           THEN /\ grades' = Inserted(grades, nextId.grades,
                                      NewGradeRow(a[1], a[2], a[3], a[4], a[5]))
                /\ nextId' = [nextId EXCEPT !.grades = @ + 1]
                /\ last' = [Call("Grade.create", <<>>, nextId.grades, "", "Grade created")
                            EXCEPT !.io = <<"SELECT", "INSERT">>]
           ELSE /\ last' = [Call("Grade.create", <<>>, NoneNum, "", QueryFailed)
                            EXCEPT !.io = <<"SELECT", "INSERT failed">>]
                /\ UNCHANGED <<grades, nextId>>
    /\ instances' = [instances EXCEPT ![c].pending = <<>>]
    /\ UNCHANGED <<students, courses>>

\* Student.create up to the result of find_by_nim (student.py:36-43).
StudentCreateCheck(c, a) ==
    /\ c \in DOMAIN instances
    /\ instances[c].model = "Student"
    /\ instances[c].pending = <<>>
    /\ IF find_by_nim(a[1], TRUE) # <<>>
       THEN /\ last' = [Call("Student.create", <<>>, NoneNum, "",
                             "Student with NIM already exists")
                        EXCEPT !.io = <<"SELECT">>]
            /\ UNCHANGED instances
       ELSE /\ last' = [Call("Student.create:checked", <<>>, NoneNum, "", "")
                        EXCEPT !.io = <<"SELECT">>]
            /\ instances' = [instances EXCEPT ![c].pending = a]
    /\ UNCHANGED <<students, courses, grades, nextId>>

\* The rest of Student.create: the INSERT (student.py:45-56).
StudentCreateInsert(c) ==
    /\ c \in DOMAIN instances
    /\ instances[c].model = "Student"
    /\ instances[c].pending # <<>>
    /\ nextId.students <= MaxRaceId
    /\ execute_query(TRUE, NaturalKeyAccepted)
    /\ LET a == instances[c].pending
       IN  /\ students' = Inserted(students, nextId.students,
                                   StudentRow(a[1], a[2], a[3], a[4], a[5]))
           /\ last' = [Call("Student.create", <<>>, nextId.students, "",
                            "Student created successfully")
                       EXCEPT !.io = <<"SELECT", "INSERT">>]
    /\ nextId' = [nextId EXCEPT !.students = @ + 1]
    /\ instances' = [instances EXCEPT ![c].pending = <<>>]
    /\ UNCHANGED <<courses, grades>>

NextRace ==
    \/ \E c \in DOMAIN instances, a \in RaceGradeArgs : GradeCreateCheck(c, a)
    \/ \E c \in DOMAIN instances : GradeCreateInsert(c)
    \/ \E c \in DOMAIN instances, a \in RaceStudentInputs : StudentCreateCheck(c, a)
    \/ \E c \in DOMAIN instances : StudentCreateInsert(c)

SpecRace == InitRace /\ [][NextRace]_vars

\* A caller that has passed its pre-check inserts its row, whatever the
\* table holds by then: the INSERT looks at no other row.
InsertAfterCheckCommits ==
    \A c \in DOMAIN instances :
        (instances[c].pending # <<>> /\ instances'[c].pending = <<>>) =>
            LET a == instances[c].pending
            IN  IF instances[c].model = "Grade"
                THEN /\ last'.val = nextId.grades
                     /\ DOMAIN grades' = DOMAIN grades \cup {nextId.grades}
                     /\ grades'[nextId.grades] = NewGradeRow(a[1], a[2], a[3], a[4], a[5])
                ELSE /\ last'.val = nextId.students
                     /\ DOMAIN students' = DOMAIN students \cup {nextId.students}
                     /\ students'[nextId.students].nim = a[1]

\* A pre-check passes exactly when no row of the key is stored at the time
\* of the query; rows that other callers are about to insert do not count.
CheckSeesCommittedRowsOnly ==
    \A c \in DOMAIN instances :
        (instances[c].pending = <<>> /\ instances'[c].pending # <<>>) =>
            LET a == instances'[c].pending
            IN  IF instances[c].model = "Grade"
                THEN \A i \in DOMAIN grades : Quadruple(grades[i]) # <<a[1], a[2], a[4], a[5]>>
                ELSE \A i \in DOMAIN students : students[i].nim # a[1]

\* C17: the duplicate guard is check-then-act: with two callers on separate
\* connections, the pre-check of each passes while no row of the key is
\* committed, and the INSERT that follows adds its row without looking
\* again; so both callers of Grade.create for one quadruple (of
\* Student.create for one nim) can pass the check before either inserts,
\* and the store ends with two rows of the quadruple (of the nim).
C17_CheckThenAct == [][InsertAfterCheckCommits /\ CheckSeesCommittedRowsOnly]_vars

\* Two grade rows of one quadruple and two student rows of one nim are
\* stored, every create having returned an id.
C17_Witness ==
    /\ \E i, j \in DOMAIN grades : i # j /\ Quadruple(grades[i]) = Quadruple(grades[j])
    /\ \E i, j \in DOMAIN students : i # j /\ students[i].nim = students[j].nim
    /\ \A c \in DOMAIN instances : instances[c].pending = <<>>

\* The failure Course.create owes for arguments with integer credits and
\* semester, by the first constraint they violate ("" when they violate
\* none).
ExpectedCourseFailure(code, name, credits, semester) ==
    IF Falsy(code) \/ Falsy(name) THEN "Code, name, credits, and semester are required"
    ELSE IF credits \notin 1 .. 6 THEN "Credits must be between 1 and 6"
    ELSE IF semester \notin 1 .. 8 THEN "Semester must be between 1 and 8"
    ELSE IF \E i \in DOMAIN courses : courses[i].code = code
    THEN "Course with code already exists"
    ELSE ""

CourseFailureKinds ==
    last'.op = "Course.create" =>
        \A a \in CourseCreateInputs :
            (a[3] # NoneNum /\ a[4] # NoneNum
                /\ CourseCreate(a[1], a[2], a[3], a[4], a[5], TRUE, TRUE))
            => /\ ExpectedCourseFailure(a[1], a[2], a[3], a[4]) # ""
                    => last'.msg = ExpectedCourseFailure(a[1], a[2], a[3], a[4])
               /\ ExpectedCourseFailure(a[1], a[2], a[3], a[4]) = ""
                    => last'.val # NoneNum

\* C18: Course.create reports which constraint failed: "missing fields"
\* exactly when code or name is empty, "credit range" for every integer
\* credits outside 1..6, zero and negatives included, "semester range" for
\* every integer semester outside 1..8, zero and negatives included, and
\* "duplicate code" when all of those pass and the code is stored.
C18_FailureKinds == [][CourseFailureKinds]_vars

\* Course.create has been refused for a code that is stored.
C18_Witness ==
    /\ last.op = "Course.create"
    /\ last.msg = "Course with code already exists"
    /\ last.val = NoneNum

(***************************************************************************)
(* Listings and statistics over a changing grades table (SpecReports)      *)
(***************************************************************************)
\* The ids of a table in ascending order (SELECT * without ORDER BY returns
\* the rows in primary key order).
RECURSIVE Ascending(_)
Ascending(ids) ==
    IF ids = {} THEN <<>> ELSE <<MinOf(ids)>> \o Ascending(ids \ {MinOf(ids)})

\* if limit: a limit that is None or 0 adds no LIMIT clause.  fetch_all
\* returns no row when the statement fails.
find_all(table, limit, rd) ==
    LET rows == Ascending(DOMAIN table)
    IN  IF ~rd THEN <<>>
        ELSE IF limit # NoneNum /\ limit # 0 /\ limit < Len(rows)
        THEN SubSeq(rows, 1, limit)
        ELSE rows

\* grade.find_all(limit)
FindAll(limit, rd) ==
    /\ last' = [Call("Grade.find_all", limit, find_all(grades, limit, rd), "", "")
                EXCEPT !.io = <<Select(rd)>>]
    /\ UNCHANGED <<students, courses, grades, nextId, instances>>

\* Limits handed to find_all: none, and 0 up to more than the rows stored.
Limits == {NoneNum} \cup (0 .. MaxId + 1)

\* if course_id: a course_id that is None or 0 selects no WHERE clause.
GradesInScope(course_id) ==
    IF course_id # NoneNum /\ course_id # 0
    THEN {i \in DOMAIN grades : grades[i].course_id = course_id}
    ELSE DOMAIN grades

\* SELECT grade_letter, COUNT(*) ... GROUP BY grade_letter: one row
\* <<letter, count>> per letter that occurs.
GroupByLetter(ids) ==
    {<<letter, Cardinality({i \in ids : grades[i].grade_letter = letter})>> :
        letter \in {grades[i].grade_letter : i \in ids}}

\* A distribution that holds only the letters of the result rows.
get_grade_distribution_sparse(course_id, rd) ==
    LET results == IF rd THEN GroupByLetter(GradesInScope(course_id)) ELSE {}
    IN  [letter \in {row[1] : row \in results} |->
            (CHOOSE row \in results : row[1] = letter)[2]]

\* The dict of the five letters at 0, overwritten (or extended) by the
\* result rows; fetch_all returns no row when the statement fails.
get_grade_distribution(course_id, rd) ==
    LET results == IF rd THEN GroupByLetter(GradesInScope(course_id)) ELSE {}
    IN  [letter \in Letters \cup {row[1] : row \in results} |->
            IF \E row \in results : row[1] = letter
            THEN (CHOOSE row \in results : row[1] = letter)[2]
            ELSE 0]

GetGradeDistribution(course_id, rd) ==
    /\ last' = [Call("Grade.get_grade_distribution", course_id,
                     get_grade_distribution(course_id, rd), "", "")
                EXCEPT !.io = <<Select(rd)>>]
    /\ UNCHANGED <<students, courses, grades, nextId, instances>>

\* Grades entered in SpecReports: two courses, letters E, C and A.
ReportGradeArgs ==
    {<<1, 1, 0, 1, "2024/2025">>, <<2, 1, 85 * ScoreScale, 1, "2024/2025">>,
     <<1, 2, 60 * ScoreScale, 1, "2024/2025">>, <<2, 2, 85 * ScoreScale, 1, "2024/2025">>}

\* Scopes handed to get_grade_distribution: none, the stored courses, and
\* the id of no course.
CourseScopes == {NoneNum} \cup CourseIds

NextReports ==
    \/ \E a \in ReportGradeArgs : GradeCreate(a[1], a[2], a[3], a[4], a[5], TRUE, TRUE)
    \/ \E id \in GradeIds, score \in {0, 70 * ScoreScale} : GradeUpdate(id, score, TRUE, TRUE)
    \/ \E id \in GradeIds : GradeDelete(id, TRUE, TRUE)
    \/ \E course_id \in CourseScopes : GetGradeDistribution(course_id, TRUE)
    \/ \E limit \in Limits : FindAll(limit, TRUE)

SpecReports == InitGrade /\ [][NextReports]_vars

\* The grade rows a scope names: all of them when it is absent.
RowsOfScope(course_id) ==
    IF course_id = NoneNum THEN DOMAIN grades
    ELSE {i \in DOMAIN grades : grades[i].course_id = course_id}

C20_FindAllLimit ==
    last.op = "Grade.find_all" =>
        LET count == Cardinality(DOMAIN grades)
        IN  IF last.arg = NoneNum THEN Len(last.val) = count
            ELSE Len(last.val) = (IF last.arg < count THEN last.arg ELSE count)

\* find_all(0) has returned both rows of a table of two.
C20_Witness ==
    /\ last.op = "Grade.find_all"
    /\ last.arg = 0
    /\ last.val = <<1, 2>>
    /\ DOMAIN grades = {1, 2}

(***************************************************************************)
(* Creation and partial update of students and courses, with empty strings *)
(* among the values (SpecNonEmpty)                                         *)
(***************************************************************************)
NonEmptyStudentInputs ==
    {<<"2021001", "Ada", "CS", None, None>>,
     <<"2021002", "Bob", "EE", None, None>>,
     <<"2021002", "", "EE", None, None>>,
     <<"2021002", "Bob", "", None, None>>}

\* Fieldsets that rename a student or change its major, to a non-empty
\* string, to the empty string, and to None.
NonEmptyStudentKwargs ==
    {<< <<"name", "Eve">> >>,
     << <<"name", "">> >>,
     << <<"name", None>> >>,
     << <<"major", "">> >>,
     << <<"name", "">>, <<"major", "EE">> >>}

NonEmptyCourseInputs ==
    {<<"CS101", "Algorithms", 3, 1, None>>,
     <<"CS102", "Databases", 5, 2, None>>,
     <<"CS102", "", 5, 2, None>>}

NonEmptyCourseKwargs ==
    {<< <<"name", "Compilers">> >>,
     << <<"name", "">> >>,
     << <<"name", None>> >>,
     << <<"name", "">>, <<"credits", 4>> >>}

NextNonEmpty ==
    \/ \E a \in NonEmptyStudentInputs : StudentCreate(a[1], a[2], a[3], a[4], a[5], TRUE, TRUE)
    \/ \E id \in RowIds, kwargs \in NonEmptyStudentKwargs : StudentUpdate(id, kwargs, TRUE, TRUE)
    \/ \E a \in NonEmptyCourseInputs : CourseCreate(a[1], a[2], a[3], a[4], a[5], TRUE, TRUE)
    \/ \E id \in RowIds, kwargs \in NonEmptyCourseKwargs : CourseUpdate(id, kwargs, TRUE, TRUE)

SpecNonEmpty == InitEmpty /\ [][NextNonEmpty]_vars

\* C21: after any sequence of Student.create/Student.update and
\* Course.create/Course.update calls, every stored student has a non-empty
\* name and major and every stored course has a non-empty name.
C21_NonEmptyKept ==
    /\ \A i \in DOMAIN students : students[i].name # "" /\ students[i].major # ""
    /\ \A i \in DOMAIN courses : courses[i].name # ""

\* Student.update(1, name="") has returned True and student 1 is stored
\* with the empty name.
C21_Witness ==
    /\ last.op = "Student.update"
    /\ last.val = TRUE
    /\ 1 \in DOMAIN students
    /\ students[1].name = ""
    /\ students[1].major = "CS"

\* What creation alone keeps: a call of create stores no row with an empty
\* name or major.
CreateStoresNonEmpty ==
    [][/\ last'.op = "Student.create" =>
              \A i \in DOMAIN students' \ DOMAIN students :
                  students'[i].name # "" /\ students'[i].major # ""
       /\ last'.op = "Course.create" =>
              \A i \in DOMAIN courses' \ DOMAIN courses : courses'[i].name # ""]_vars

====
